---- MODULE Spec2Model ----
(***************************************************************************)
(* A model of the DataSift client's request layer: the PartialRequest      *)
(* builder and its response normalizer (datasift/request.py) and the       *)
(* Historics Preview resource client (datasift/historics_preview.py).      *)
(*                                                                         *)
(* Python strings are sequences of symbols (TLA+ strings used as atoms of  *)
(* one or more characters), so that join, strip and the substring test     *)
(* are computed.  JSON texts are sequences of lexical tokens, and the JSON *)
(* codec is a serializer and a recursive-descent parser over them.         *)
(***************************************************************************)
EXTENDS Integers, Sequences, FiniteSets, TLC

\* ------------------------------------------------------------------ bounds
MaxCalls == 2       \* terminal operations performed in one behaviour
MaxChain == 2       \* with_prefix calls chained on the builder

\* ----------------------------------------------------------- Python values
\* An optional value: None is the empty sequence, a present value x is <<x>>.
None == <<>>
Some(x) == <<x>>

EmptyDict == [x \in {} |-> x]

\* Decoded JSON values (what jsonlib.loads returns), tagged by Python type.
JNull == [t |-> "NoneType"]
JBool(b) == [t |-> "bool", b |-> b]
JNum(n) == [t |-> "int", n |-> n]
JStr(s) == [t |-> "str", s |-> s]
JList(xs) == [t |-> "list", xs |-> xs]
JDict(d) == [t |-> "dict", d |-> d]

\* ----------------------------------------------------------------- strings
RECURSIVE Join(_, _)
\* sep.join(items): the items concatenated with sep between neighbours.
Join(sep, items) ==
    IF items = <<>> THEN <<>>
    ELSE IF Len(items) = 1 THEN items[1]
    ELSE items[1] \o sep \o Join(sep, Tail(items))

RECURSIVE LStrip(_, _)
LStrip(s, ch) ==
    IF s # <<>> /\ Head(s) = ch THEN LStrip(Tail(s), ch) ELSE s

RECURSIVE RStrip(_, _)
RStrip(s, ch) ==
    IF s # <<>> /\ s[Len(s)] = ch THEN RStrip(SubSeq(s, 1, Len(s) - 1), ch) ELSE s

\* s.strip(ch)
Strip(s, ch) == RStrip(LStrip(s, ch), ch)

\* sub in s, for two strings: sub occurs as a contiguous run of s.
Contains(s, sub) ==
    \E i \in 1..(Len(s) - Len(sub) + 1) : SubSeq(s, i, i + Len(sub) - 1) = sub

RECURSIVE CharLen(_)
\* len(s) in characters: the symbols of a string may be several characters.
CharLen(s) == IF s = <<>> THEN 0 ELSE Len(Head(s)) + CharLen(Tail(s))

\* -------------------------------------------------------------- JSON codec
\* Lexical tokens of a JSON text.
P(c) == [k |-> "p", p |-> c]          \* punctuation { } [ ] : ,
TS(s) == [k |-> "s", s |-> s]         \* a string literal
TN(n) == [k |-> "n", n |-> n]         \* a number literal
TW(w) == [k |-> "w", w |-> w]         \* null, true, false
IsP(tok, c) == tok.k = "p" /\ tok.p = c

RECURSIVE DumpsValue(_)
RECURSIVE DumpsItems(_)
RECURSIVE DumpsMembers(_, _)

DumpsItems(xs) ==
    IF xs = <<>> THEN <<>>
    ELSE IF Len(xs) = 1 THEN DumpsValue(xs[1])
    ELSE DumpsValue(xs[1]) \o <<P(",")>> \o DumpsItems(Tail(xs))

DumpsMembers(d, keys) ==
    IF keys = {} THEN <<>>
    ELSE LET key == CHOOSE x \in keys : TRUE
             one == <<TS(key), P(":")>> \o DumpsValue(d[key])
         IN  IF keys = {key} THEN one
             ELSE one \o <<P(",")>> \o DumpsMembers(d, keys \ {key})

\* jsonlib.dumps(v)
DumpsValue(v) ==
    CASE v.t = "NoneType" -> <<TW("null")>>
      [] v.t = "bool" -> <<TW(IF v.b THEN "true" ELSE "false")>>
      [] v.t = "int" -> <<TN(v.n)>>
      [] v.t = "str" -> <<TS(v.s)>>
      [] v.t = "list" -> <<P("[")>> \o DumpsItems(v.xs) \o <<P("]")>>
      [] v.t = "dict" -> <<P("{")>> \o DumpsMembers(v.d, DOMAIN v.d) \o <<P("}")>>

Dumps(v) == DumpsValue(v)

ParseFail == [ok |-> FALSE, v |-> JNull, rest |-> <<>>]
ParseOk(v, rest) == [ok |-> TRUE, v |-> v, rest |-> rest]

RECURSIVE ParseValue(_)
RECURSIVE ParseElems(_, _)
RECURSIVE ParseMembers(_, _)

\* The elements of an array after "[" or ",": value ("," value)* "]".
ParseElems(toks, acc) ==
    LET r == ParseValue(toks) IN
    IF ~r.ok \/ r.rest = <<>> THEN ParseFail
    ELSE IF IsP(Head(r.rest), ",") THEN ParseElems(Tail(r.rest), Append(acc, r.v))
    ELSE IF IsP(Head(r.rest), "]") THEN ParseOk(JList(Append(acc, r.v)), Tail(r.rest))
    ELSE ParseFail

\* The members of an object after "{" or ",": string ":" value ... "}".
\* A repeated key keeps its last value.
ParseMembers(toks, d) ==
    IF Len(toks) < 2 \/ toks[1].k # "s" \/ ~IsP(toks[2], ":") THEN ParseFail
    ELSE LET r == ParseValue(SubSeq(toks, 3, Len(toks)))
             key == toks[1].s
             d2 == [x \in (DOMAIN d) \cup {key} |-> IF x = key THEN r.v ELSE d[x]]
         IN  IF ~r.ok \/ r.rest = <<>> THEN ParseFail
             ELSE IF IsP(Head(r.rest), ",") THEN ParseMembers(Tail(r.rest), d2)
             ELSE IF IsP(Head(r.rest), "}") THEN ParseOk(JDict(d2), Tail(r.rest))
             ELSE ParseFail

ParseValue(toks) ==
    IF toks = <<>> THEN ParseFail
    ELSE LET h == Head(toks)
             r == Tail(toks)
         IN  CASE h.k = "n" -> ParseOk(JNum(h.n), r)
               [] h.k = "s" -> ParseOk(JStr(h.s), r)
               [] h.k = "w" /\ h.w = "null" -> ParseOk(JNull, r)
               [] h.k = "w" /\ h.w = "true" -> ParseOk(JBool(TRUE), r)
               [] h.k = "w" /\ h.w = "false" -> ParseOk(JBool(FALSE), r)
               [] IsP(h, "[") ->
                    IF r # <<>> /\ IsP(Head(r), "]") THEN ParseOk(JList(<<>>), Tail(r))
                    ELSE ParseElems(r, <<>>)
               [] IsP(h, "{") ->
                    IF r # <<>> /\ IsP(Head(r), "}") THEN ParseOk(JDict(EmptyDict), Tail(r))
                    ELSE ParseMembers(r, EmptyDict)
               [] OTHER -> ParseFail

\* jsonlib.loads(text): the decoded value, or ValueError (ok = FALSE) when
\* the text is not one JSON value.
Loads(text) ==
    LET r == ParseValue(text) IN
    IF r.ok /\ r.rest = <<>> THEN r ELSE ParseFail

\* ---------------------------------------------------------- Python helpers
\* `needle in data` for a string needle: key membership for a dict, element
\* membership for a list, substring for a str, TypeError for a value that is
\* not a container (None, a number, a boolean).
PyIn(needle, data) ==
    CASE data.t = "dict" -> IF needle \in DOMAIN data.d THEN "True" ELSE "False"
      [] data.t = "list" ->
            IF \E i \in 1..Len(data.xs) : data.xs[i] = JStr(needle)
            THEN "True" ELSE "False"
      [] data.t = "str" -> IF Contains(data.s, needle) THEN "True" ELSE "False"
      [] OTHER -> "TypeError"

\* What dict.update makes of one element of a sequence argument: it must be
\* an iterable of exactly two items, the first of them hashable.
PairError(e) ==
    CASE e.t \in {"NoneType", "bool", "int"} -> "TypeError"
      [] e.t = "str" -> IF CharLen(e.s) = 2 THEN "none" ELSE "ValueError"
      [] e.t = "list" ->
            IF Len(e.xs) # 2 THEN "ValueError"
            ELSE IF e.xs[1].t \in {"list", "dict"} THEN "TypeError" ELSE "none"
      [] e.t = "dict" -> IF Cardinality(DOMAIN e.d) = 2 THEN "none" ELSE "ValueError"

RECURSIVE FirstPairError(_)
\* The elements are taken in order: the first one that is no pair raises.
FirstPairError(xs) ==
    IF xs = <<>> THEN "none"
    ELSE IF PairError(Head(xs)) # "none" THEN PairError(Head(xs))
    ELSE FirstPairError(Tail(xs))

\* The exception dict.update(data) raises on an empty dict, or "none".
\* A str is iterated character by character, and no character is a pair.
UpdateError(data) ==
    CASE data.t = "dict" -> "none"
      [] data.t = "list" -> FirstPairError(data.xs)
      [] data.t = "str" -> IF data.s = <<>> THEN "none" ELSE "ValueError"
      [] OTHER -> "TypeError"

\* ---------------------------------------------------------------- outcomes
\* What a call ends in: a returned value or a raised exception, with the
\* primary view (data) and the raw copy it carries.
Absent == [t |-> "absent"]
Outcome(kind, data, raw) == [kind |-> kind, data |-> data, raw |-> raw]
Raises(kind) == Outcome(kind, Absent, Absent)
ReturnsNone == Outcome("None", Absent, Absent)

\* ------------------------------------------------------------ collaborators
USER_AGENT == "DataSiftPython"

\* A value rewritten by the output mapping.
Mapped(v) == [t |-> "mapped", of |-> v]

\* outputmapper(view, prefix, endpoint): the post-processing of the primary
\* view keyed by prefix and endpoint.  Its rules are not part of the request
\* layer: any subset of the values may be rewritten, no key is added or lost.
OutputMapper(view, prefix, endpoint) ==
    { [key \in DOMAIN view |-> IF key \in K THEN Mapped(view[key]) ELSE view[key]] :
        K \in SUBSET (DOMAIN view) }

\* response.raise_for_status() of the transport library: a 4xx or 5xx status
\* raises HTTPError.
RaisesForStatus(response) ==
    response.status_code >= 400 /\ response.status_code < 600

\* ---------------------------------------------------------- response types
\* Response.__init__(response, data, prefix, endpoint): update(data), the raw
\* copy through the JSON codec, then the output mapping of the view.  The
\* only data that is not a dict and reaches it holds "error" (an element of
\* five characters, or single characters), so update raises on it.
ResponseInit(response, data, prefix, endpoint) ==
    IF UpdateError(data) # "none" THEN {Raises(UpdateError(data))}
    ELSE { Outcome("Response", JDict(view), Loads(Dumps(data)).v) :
             view \in OutputMapper(data.d, prefix, endpoint) }

\* ListResponse.__init__(response, data)
ListResponseInit(response, data) ==
    Outcome("ListResponse", JList(data.xs), JList(data.xs))

\* ------------------------------------------------------------ PartialRequest
API_SCHEME == <<"https">>
API_HOST == <<"api.datasift.com">>
API_VERSION == <<"v1.1">>
HEADERS == [h \in {"User-Agent"} |-> USER_AGENT]

\* PartialRequest.__init__
PartialRequest(auth, prefix, headers, timeout, proxies, verify) ==
    [auth |-> auth, prefix |-> prefix, headers |-> headers,
     timeout |-> timeout, proxies |-> proxies, verify |-> verify]

\* PartialRequest.with_prefix(path, *args), segs = (path,) + args
\* (variant: the segments extend the prefix of self)
with_prefix_extending(self, segs) ==
    PartialRequest(self.auth,
                   Some(Join(<<"/">>, (IF self.prefix = None THEN <<>> ELSE self.prefix) \o segs)),
                   self.headers, self.timeout, self.proxies, self.verify)
with_prefix(self, segs) ==
    PartialRequest(self.auth, Some(Join(<<"/">>, segs)), self.headers,
                   self.timeout, self.proxies, self.verify)

RECURSIVE PathParts(_)
\* The arguments of path() that are kept (not None, not empty), stripped.
PathParts(args) ==
    IF args = <<>> THEN <<>>
    ELSE IF Head(args) # None /\ Head(args)[1] # <<>>
         THEN <<Strip(Head(args)[1], "/")>> \o PathParts(Tail(args))
         ELSE PathParts(Tail(args))

\* PartialRequest.path(*args)
path(args) == Join(<<"/">>, PathParts(args))

RECURSIVE dicts_first_wins(_)
\* (variant of dicts below: an earlier item keeps its key)
dicts_first_wins(ds) ==
    IF ds = <<>> THEN EmptyDict
    ELSE LET first == ds[1]
             rest == dicts_first_wins(Tail(ds))
         IN  IF first = None \/ first[1] = EmptyDict THEN rest
             ELSE [h \in (DOMAIN rest) \cup (DOMAIN first[1]) |->
                     IF h \in DOMAIN first[1] THEN first[1][h] ELSE rest[h]]

RECURSIVE dicts(_)
\* PartialRequest.dicts(*dicts): the items of every dict that is neither None
\* nor empty, in order; a later item replaces an earlier one with its key.
dicts(ds) ==
    IF ds = <<>> THEN EmptyDict
    ELSE LET first == ds[Len(ds)]
             rest == dicts(SubSeq(ds, 1, Len(ds) - 1))
         IN  IF first = None \/ first[1] = EmptyDict THEN rest
             ELSE [h \in (DOMAIN rest) \cup (DOMAIN first[1]) |->
                     IF h \in DOMAIN first[1] THEN first[1][h] ELSE rest[h]]

\* PartialRequest.__call__: the arguments handed to requests.request
Call(self, method, p, params, data, headers) ==
    [method |-> method,
     url |-> API_SCHEME \o <<"://">> \o
             path(<<Some(API_HOST), Some(API_VERSION), self.prefix, Some(p)>>),
     params |-> params, data |-> data, auth |-> self.auth,
     headers |-> dicts(<<self.headers, headers, Some(HEADERS)>>),
     timeout |-> self.timeout, proxies |-> self.proxies, verify |-> self.verify]

\* build_response, the except clause: the parser's ValueError becomes the
\* decode failure.
\* (variant: the clause does not catch it, and the parser's error escapes)
DecodeFailureMutant == {Raises("ValueError")}
DecodeFailure == {Raises("DataSiftApiFailure")}

\* build_response, the branch taken when "error" in data.
\* (variant: the transport's status check comes first)
ErrorRaiseMutant(response, data) ==
    IF RaisesForStatus(response) THEN {Raises("HTTPError")}
    ELSE { IF r.kind = "Response"
           THEN Outcome("DataSiftApiException", r.data, r.raw)
           ELSE r : r \in ResponseInit(response, data, None, None) }
ErrorRaise(response, data) ==
    IF response.status_code = 401
    THEN {Outcome("AuthException", data, Absent)}
    ELSE { IF r.kind = "Response"
           THEN Outcome("DataSiftApiException", r.data, r.raw)
           ELSE r : r \in ResponseInit(response, data, None, None) }

\* build_response, after the error test: the transport's status check, then
\* the routing on the shape of the data.  isinstance(data, (list, map)) is
\* False for other data where map is a type and raises TypeError where map is
\* a function; when it is False the method ends and returns None.
ShapeRoute(self, response, data, p) ==
    IF RaisesForStatus(response) THEN {Raises("HTTPError")}
    ELSE IF data.t = "dict" THEN ResponseInit(response, data, self.prefix, Some(p))
    ELSE IF data.t = "list" THEN {ListResponseInit(response, data)}
    ELSE {ReturnsNone, Raises("TypeError")}

\* build_response, the else branch of the status test: the empty dict.
\* (variant: the body is decoded and wrapped)
NoContentMutant(response) ==
    ResponseInit(response, Loads(response.text).v, None, None)
NoContent(response) == ResponseInit(response, JDict(EmptyDict), None, None)

\* PartialRequest.build_response(response, path): the outcomes the call can
\* end in.  More than one where the output mapping or the interpreter decides.
build_response(self, response, p) ==
    IF response.status_code # 204 THEN
        LET parsed == Loads(response.text)
            data == parsed.v
            err == PyIn(<<"error">>, data)
        IN  IF ~parsed.ok THEN DecodeFailure
            ELSE IF err = "TypeError" THEN {Raises("TypeError")}
            ELSE IF err = "True" THEN ErrorRaise(response, data)
            ELSE ShapeRoute(self, response, data, p)
    ELSE NoContent(response)

\* PartialRequest.json: a str is sent as it is, anything else is serialized.
\* A body is <<"str", text>> or <<"obj", value>>.
JsonBody(data) == IF data[1] = "str" THEN data[2] ELSE Dumps(data[2])
JsonHeaders == [h \in {"Content-Type"} |-> "application/json"]

\* --------------------------------------------------------- HistoricsPreview
\* HistoricsPreview.__init__
HistoricsPreviewInit(req) == with_prefix(req, << <<"preview">> >>)

\* HistoricsPreview.create, the validation of sources.
\* (variant: only a missing list, not an empty one, is refused)
SourcesMissingIfNone(sources) == FALSE
SourcesMissing(sources) == Len(sources) = 0

\* The params dict HistoricsPreview.create builds.
\* (variant: sources and parameters change places)
CreateParamsSwapped(stream, start, parameters, sources, end) ==
    [key \in {<<"hash">>, <<"start">>, <<"sources">>, <<"parameters">>} |->
        CASE key = <<"hash">> -> JStr(stream)
          [] key = <<"start">> -> JNum(start)
          [] key = <<"sources">> -> JStr(Join(<<",">>, parameters))
          [] key = <<"parameters">> -> JStr(Join(<<",">>, sources))]
CreateParams(stream, start, parameters, sources, end) ==
    LET base == [key \in {<<"hash">>, <<"start">>, <<"sources">>, <<"parameters">>} |->
                   CASE key = <<"hash">> -> JStr(stream)
                     [] key = <<"start">> -> JNum(start)
                     [] key = <<"sources">> -> JStr(Join(<<",">>, sources))
                     [] key = <<"parameters">> -> JStr(Join(<<",">>, parameters))]
    IN  IF end # None /\ end[1] # 0
        THEN [key \in (DOMAIN base) \cup {<<"end">>} |->
                IF key = <<"end">> THEN JNum(end[1]) ELSE base[key]]
        ELSE base

\* ------------------------------------------------------------------ inputs
Auth == "user:key"

\* Headers the builder is constructed with.
BuilderHeaders == {None, Some([h \in {"A"} |-> "1"])}

\* Headers given to one call.
CallHeaders ==
    {None,
     Some([h \in {"A", "B"} |-> IF h = "A" THEN "2" ELSE "3"]),
     Some([h \in {"User-Agent"} |-> "mine"])}

\* Arguments of with_prefix: one segment or several.
PrefixArgs == {<< <<"source">> >>, << <<"push">>, <<"/", "log", "/">> >>}

Endpoints == {<<"get">>, <<"/", "create">>}

Statuses == {200, 204, 301, 401, 404}

ErrorBody == <<P("{"), TS(<<"error">>), P(":"), TS(<<"bad">>), P("}")>>
ObjectBody == <<P("{"), TS(<<"id">>), P(":"), TS(<<"abc">>), P("}")>>
ListBody == <<P("["), TN(1), P(","), TN(2), P(","), TN(3), P("]")>>
ErrorListBody == <<P("["), TS(<<"error">>), P("]")>>
NumErrorListBody == <<P("["), TN(1), P(","), TS(<<"error">>), P("]")>>
NullBody == <<TW("null")>>
StringBody == <<TS(<<"done">>)>>
ErrorStringBody == <<TS(<<"an ", "error", "!">>)>>
EmptyBody == <<>>
TruncatedBody == <<P("{"), TS(<<"error">>), P(":")>>

\* Response texts: objects, arrays, scalars, and texts that are not JSON.
Bodies ==
    {ErrorBody, ObjectBody, ListBody, ErrorListBody, NumErrorListBody,
     NullBody, StringBody, ErrorStringBody, EmptyBody, TruncatedBody}

TransportResponse(status_code, text) == [status_code |-> status_code, text |-> text]

\* Every status with every text.
Responses == {TransportResponse(st, text) : st \in Statuses, text \in Bodies}

\* The responses of an endpoint that answers with an object or an error.
ObjectResponses == {TransportResponse(200, ObjectBody), TransportResponse(401, ErrorBody)}

Streams == {<<"hash1">>}
Starts == {1}
Ends == {None, Some(0), Some(9)}
ParameterLists == {<< <<"interaction.author">>, <<"links.url">> >>}
SourceLists ==
    {<<>>, << <<"twitter">> >>, << <<"twitter">>, <<"facebook">> >>,
     << <<"facebook">>, <<"twitter">> >>}
PreviewIds == {<<"id1">>}

JsonData == {<<"str", ErrorBody>>, <<"obj", JDict([key \in {<<"q">>} |-> JNum(1)])>>}
PostData == {Some(<<TS(<<"raw">>)>>)}
PostHeaders == {None, Some([h \in {"A", "B"} |-> IF h = "A" THEN "2" ELSE "3"])}

\* -------------------------------------------------------------------- state
VARIABLES
    request,    \* the PartialRequest builder in hand
    chain,      \* the arguments of the with_prefix calls that led to request
    preview,    \* the HistoricsPreview client's own builder
    ncalls,     \* the number of transport calls (requests.request) made
    lastcall,   \* the arguments of the latest transport call
    nops,       \* the number of terminal operations performed
    last,       \* the latest operation and its arguments
    result      \* what the latest operation ended in

vars == <<request, chain, preview, ncalls, lastcall, nops, last, result>>

NoCall == [method |-> "none"]

Init ==
    /\ \E h \in BuilderHeaders :
          request = PartialRequest(Auth, None, h, None, None, TRUE)
    /\ chain = <<>>
    /\ preview = HistoricsPreviewInit(request)
    /\ ncalls = 0
    /\ lastcall = NoCall
    /\ nops = 0
    /\ last = [op |-> "none"]
    /\ result = Outcome("none", Absent, Absent)

\* request = request.with_prefix(path, *args)
WithPrefix(segs) ==
    /\ Len(chain) < MaxChain
    /\ request' = with_prefix(request, segs)
    /\ chain' = Append(chain, segs)
    /\ UNCHANGED <<preview, ncalls, lastcall, nops, last, result>>

\* One transport call by builder self and the normalization of its response.
\* The transport answers with a response; its own errors (timeout, TLS,
\* connection) pass through the builder unchanged and are left out.
Terminal(self, method, p, params, data, headers, response) ==
    /\ ncalls' = ncalls + 1
    /\ lastcall' = Call(self, method, p, params, data, headers)
    /\ result' \in build_response(self, response, p)

\* request.get(path, params, headers)
Get(p, headers, response) ==
    /\ nops < MaxCalls
    /\ Terminal(request, "get", p, None, None, headers, response)
    /\ nops' = nops + 1
    /\ last' = [op |-> "get", self |-> request, path |-> p, headers |-> headers,
                response |-> response, before |-> ncalls]
    /\ UNCHANGED <<request, chain, preview>>

\* request.post(path, params, headers, data)
Post(p, headers, data, response) ==
    /\ nops < MaxCalls
    /\ Terminal(request, "post", p, None, data, headers, response)
    /\ nops' = nops + 1
    /\ last' = [op |-> "post", self |-> request, path |-> p, headers |-> headers,
                response |-> response, before |-> ncalls]
    /\ UNCHANGED <<request, chain, preview>>

\* request.json(path, data)
Json(p, data, response) ==
    /\ nops < MaxCalls
    /\ Terminal(request, "post", p, None, Some(JsonBody(data)), Some(JsonHeaders), response)
    /\ nops' = nops + 1
    /\ last' = [op |-> "json", self |-> request, path |-> p, headers |-> Some(JsonHeaders),
                response |-> response, before |-> ncalls]
    /\ UNCHANGED <<request, chain, preview>>

\* HistoricsPreview.create(stream, start, parameters, sources, end)
Create(stream, start, parameters, sources, end, response) ==
    /\ nops < MaxCalls
    /\ IF SourcesMissing(sources)
       THEN /\ result' = Raises("HistoricSourcesRequired")
            /\ UNCHANGED <<ncalls, lastcall>>
       ELSE Terminal(preview, "post", <<"create">>, None,
                     Some(JsonBody(<<"obj", JDict(CreateParams(stream, start, parameters, sources, end))>>)),
                     Some(JsonHeaders), response)
    /\ nops' = nops + 1
    /\ last' = [op |-> "create", self |-> preview, stream |-> stream, start |-> start,
                parameters |-> parameters, sources |-> sources, end |-> end,
                headers |-> Some(JsonHeaders), response |-> response, before |-> ncalls]
    /\ UNCHANGED <<request, chain, preview>>

\* HistoricsPreview.get(preview_id)
PreviewGet(id, response) ==
    /\ nops < MaxCalls
    /\ Terminal(preview, "get", <<"get">>, Some([key \in {"id"} |-> id]), None, None, response)
    /\ nops' = nops + 1
    /\ last' = [op |-> "preview.get", self |-> preview, id |-> id, headers |-> None,
                response |-> response, before |-> ncalls]
    /\ UNCHANGED <<request, chain, preview>>

\* The client in use: the terminal verbs of the builder it was constructed
\* with and the operations of its Historics Preview resource.
Next ==
    \/ \E p \in Endpoints, h \in CallHeaders, r \in ObjectResponses : Get(p, h, r)
    \/ \E h \in PostHeaders, d \in PostData, r \in Responses : Post(<<"push">>, h, d, r)
    \/ \E d \in JsonData, r \in ObjectResponses : Json(<<"validate">>, d, r)
    \/ \E s \in Streams, st \in Starts, ps \in ParameterLists, so \in SourceLists,
          e \in Ends, r \in ObjectResponses : Create(s, st, ps, so, e, r)
    \/ \E id \in PreviewIds, r \in ObjectResponses : PreviewGet(id, r)

Spec == Init /\ [][Next]_vars

\* The builder in use: builders derived with with_prefix, and calls on them.
NextBuilder ==
    \/ \E segs \in PrefixArgs : WithPrefix(segs)
    \/ \E p \in Endpoints, h \in CallHeaders, r \in ObjectResponses : Get(p, h, r)

SpecBuilder == Init /\ [][NextBuilder]_vars

\* ------------------------------------------------------------------- claims
\* The latest operation made its transport call and normalized the response.
Normalized == last.op # "none" /\ ncalls = last.before + 1

LastStatus == last.response.status_code
LastText == last.response.text

\* The JSON texts among Bodies that are not one JSON value.
MalformedBodies == {EmptyBody, TruncatedBody}

\* The object the latest transport call's body decodes to.
SentBody == Loads(lastcall.data[1]).v.d

CreateCalled == last.op = "create" /\ last.sources # <<>>

\* C1: create with an empty sources list ends in HistoricSourcesRequired and
\* makes no transport call.
C1_EmptySourcesRaiseWithoutCall ==
    (last.op = "create" /\ last.sources = <<>>) =>
        /\ result.kind = "HistoricSourcesRequired"
        /\ ncalls = last.before

\* C1 witness: the validation error after an earlier operation made a call.
C1_Witness ==
    /\ last.op = "create" /\ last.sources = <<>>
    /\ result.kind = "HistoricSourcesRequired"
    /\ ncalls = 1 /\ nops = 2

\* C2: create with a non-empty sources list raises no validation error and
\* makes exactly one transport call: a POST to preview/create whose JSON body
\* maps hash to stream, start to start, sources and parameters to their
\* comma-joined lists in the given order.
C2_CreatePostsOnce ==
    CreateCalled =>
        /\ result.kind # "HistoricSourcesRequired"
        /\ ncalls = last.before + 1
        /\ lastcall.method = "post"
        /\ lastcall.url = <<"https", "://", "api.datasift.com", "/", "v1.1", "/",
                            "preview", "/", "create">>
        /\ lastcall.headers["Content-Type"] = "application/json"
        /\ SentBody[<<"hash">>] = JStr(last.stream)
        /\ SentBody[<<"start">>] = JNum(last.start)
        /\ SentBody[<<"sources">>] = JStr(Join(<<",">>, last.sources))
        /\ SentBody[<<"parameters">>] = JStr(Join(<<",">>, last.parameters))

\* C2 witness: two sources, sent as "facebook,twitter".
C2_Witness ==
    /\ CreateCalled
    /\ last.sources = << <<"facebook">>, <<"twitter">> >>
    /\ SentBody[<<"sources">>] = JStr(<<"facebook", ",", "twitter">>)
    /\ ncalls = 2

RECURSIVE Flatten(_)
Flatten(calls) == IF calls = <<>> THEN <<>> ELSE Head(calls) \o Flatten(Tail(calls))

\* C3 as stated: after a chain of with_prefix calls the prefix is every
\* segment given along the chain, in order, joined by "/".
C3_PrefixAccumulates ==
    chain # <<>> => request.prefix = Some(Join(<<"/">>, Flatten(chain)))

\* C3 amended: with_prefix returns a builder whose prefix is the segments of
\* that call alone joined by "/"; the prefix of the builder it was called on
\* is not part of it.
C3_PrefixReplaced ==
    chain # <<>> => request.prefix = Some(Join(<<"/">>, chain[Len(chain)]))

\* C3 witness: a chain of two calls, the prefix being the second call's.
C3_Witness ==
    /\ chain = << << <<"source">> >>, << <<"push">>, <<"/", "log", "/">> >> >>
    /\ request.prefix = Some(<<"push", "/", "/", "log", "/">>)

\* C4: a decoded mapping with an "error" key under a status other than 204
\* ends in AuthException carrying the payload when the status is 401, and in
\* DataSiftApiException carrying the wrapped response for every other
\* status; the shape and the HTTP status do not get a say.
C4_ErrorPayloadRaises ==
    (Normalized /\ LastStatus # 204 /\ LastText = ErrorBody) =>
        LET payload == JDict([key \in {<<"error">>} |-> JStr(<<"bad">>)]) IN
        IF LastStatus = 401
        THEN result.kind = "AuthException" /\ result.data = payload
        ELSE /\ result.kind = "DataSiftApiException"
             /\ result.raw = payload
             /\ DOMAIN result.data.d = {<<"error">>}

\* C4 witness: the API error under a 404, ahead of the HTTP error.
C4_Witness ==
    /\ Normalized /\ LastText = ErrorBody /\ LastStatus = 404
    /\ result.kind = "DataSiftApiException"

\* C5 as stated: a 2xx response other than 204 whose body is a JSON array
\* ends in a ListResponse whose raw copy and whose elements are the array.
C5_ArrayGivesListResponse ==
    (Normalized /\ LastStatus = 200 /\ Loads(LastText).ok /\ Loads(LastText).v.t = "list") =>
        /\ result.kind = "ListResponse"
        /\ result.raw = Loads(LastText).v
        /\ result.data = Loads(LastText).v

\* C6: the headers of a transport call are the builder's headers, the call's
\* headers and the defaults merged in this order, a later source replacing
\* an earlier one's value: no key is lost, the call's value wins over the
\* builder's, and User-Agent is the default's.
C6_HeaderMerge ==
    Normalized =>
        LET stored == IF last.self.headers = None THEN EmptyDict ELSE last.self.headers[1]
            given == IF last.headers = None THEN EmptyDict ELSE last.headers[1]
            sent == lastcall.headers
        IN  /\ DOMAIN sent = (DOMAIN stored) \cup (DOMAIN given) \cup {"User-Agent"}
            /\ sent["User-Agent"] = USER_AGENT
            /\ \A h \in (DOMAIN given) \ {"User-Agent"} : sent[h] = given[h]
            /\ \A h \in (DOMAIN stored) \ ((DOMAIN given) \cup {"User-Agent"}) :
                  sent[h] = stored[h]

\* C6 witness: builder {A: 1}, call {A: 2, B: 3}.
C6_Witness ==
    /\ Normalized /\ last.op = "get"
    /\ last.self.headers = Some([h \in {"A"} |-> "1"])
    /\ lastcall.headers = [h \in {"A", "B", "User-Agent"} |->
                              CASE h = "A" -> "2" [] h = "B" -> "3" [] OTHER -> USER_AGENT]

\* C7: a body that is not JSON under a status other than 204 ends in
\* DataSiftApiFailure, whatever the status.
C7_MalformedBodyIsDecodeFailure ==
    (Normalized /\ LastStatus # 204 /\ LastText \in MalformedBodies) =>
        result.kind = "DataSiftApiFailure"

\* C7 witness: the decode failure under a 404.
C7_Witness ==
    /\ Normalized /\ LastStatus = 404 /\ LastText = TruncatedBody
    /\ result.kind = "DataSiftApiFailure"

\* C8: a 204 ends in a Response whose payload and raw copy are empty,
\* whatever the body is.
C8_NoContentIsEmptyResponse ==
    (Normalized /\ LastStatus = 204) =>
        /\ result.kind = "Response"
        /\ result.data = JDict(EmptyDict)
        /\ result.raw = JDict(EmptyDict)

\* C8 witness: a 204 whose body holds an error object.
C8_Witness ==
    /\ Normalized /\ LastStatus = 204 /\ LastText = ErrorBody
    /\ result.kind = "Response"

\* C9 as stated: every normalization ends in one of the documented outcomes.
C9_OutcomeIsDocumented ==
    Normalized =>
        result.kind \in {"Response", "ListResponse", "AuthException",
                         "DataSiftApiException", "DataSiftApiFailure", "HTTPError"}

\* C10 as stated: the body create sends has an end field exactly when an end
\* argument was given, with the value given.
C10_EndSentWhenGiven ==
    CreateCalled =>
        /\ (<<"end">> \in DOMAIN SentBody) <=> (last.end # None)
        /\ last.end # None => SentBody[<<"end">>] = JNum(last.end[1])
====
